---- MODULE Spec2Model ----
(***************************************************************************)
(* Dating App API (src/main.py): the like -> mutual-like -> match pipeline  *)
(* and the match-scoped messaging endpoints, over the document store.      *)
(*                                                                         *)
(* The match and message collections are the sequences of their documents  *)
(* in insertion order, a document's _id being its position; the like       *)
(* collection, whose _ids nothing reads, is the bag of its documents.      *)
(* A handler is one request.  Every round trip to the store is one step.   *)
(* A handler never awaits, so one server process runs it to its end; the   *)
(* store is shared, and requests served by different worker processes      *)
(* interleave between their steps (Spec).  SpecSeq is the single process:  *)
(* one request at a time.                                                  *)
(* A finished request stays, with its response, until the next request    *)
(* arrives, so what a call reported can be read from the state.            *)
(***************************************************************************)
EXTENDS Naturals, Sequences, FiniteSets, Bags

\* ---------------------------------------------------------------- bounds
\* Likes and messages stored while requests overlap, and the workers serving
MaxLikes == 2
MaxMessages == 1
MaxInFlight == 2
\* Likes and messages stored while requests come one at a time
MaxLikesSeq == 3
MaxMessagesSeq == 3
\* The last reading of the clock
MaxClock == 1
\* Users registered while register and update_me requests overlap
MaxRegisters == 2
\* Likes, messages and users stored while requests of every kind come one at
\* a time
MaxLikesAll == 2
MaxMessagesAll == 1
MaxRegistersAll == 1
\* Matches in the store that GET /matches is run against
MaxMatchesDir == 2

VARIABLES user, like, match, message, req, now

vars == <<user, like, match, message, req, now>>

\* ------------------------------------------------------------ small sets
\* Python's None where a document is expected, and the id no request carries
None == [none |-> TRUE]
NoId == "none"
\* The registered users; a and b like, c is the user outside their pair, and
\* x is an id of no user
UserIds == {"a", "b", "c"}
LikerIds == {"a", "b"}
TargetIds == {"a", "b", "x"}
\* The texts a client sends; one of them is empty
Texts == {"", "hi"}
TextsSeq == {"hi"}
Workers == 1..MaxInFlight
\* The ids the store gives to the users registered, in order
NewUserIds == <<"d", "e", "f">>
\* The emails registered with: that of user a, and one no user has at first
Emails == {"a", "n"}
\* A field no payload sets and no document holds (Python's None for a string)
Unset == "unset"
\* The bio a profile update carries
Bios == {Unset, "hey"}
\* The users who update their profile
UpdaterIds == {"a"}

\* User(...).model_dump() with created_at and updated_at, lines 135-141
User(email, created_at, updated_at) ==
    [email |-> email, bio |-> Unset, created_at |-> created_at,
     updated_at |-> updated_at]

Like(liker_id, liked_id, created_at) ==
    [liker_id |-> liker_id, liked_id |-> liked_id, created_at |-> created_at]

\* The match document with the two users the other way round
MatchSwapped(user_a, user_b, created_at) ==
    [user_a |-> user_b, user_b |-> user_a, created_at |-> created_at]

Match(user_a, user_b, created_at) ==
    [user_a |-> user_a, user_b |-> user_b, created_at |-> created_at]

Message(match_id, sender_id, text, created_at) ==
    [match_id |-> match_id, sender_id |-> sender_id, text |-> text,
     created_at |-> created_at]

\* ------------------------------------------------------- store lookups
\* db["user"].find_one({"email": email}): is there one
get_user_by_email(email) == \E id \in DOMAIN user : user[id].email = email

\* The public fields of user document id
user_entity(id) == [id |-> id, email |-> user[id].email, bio |-> user[id].bio]

\* The update that leaves out the _id filter and reaches every user
UpdateEveryUser(id, bio, updated_at) ==
    [v \in DOMAIN user |->
       [user[v] EXCEPT !.bio = IF bio = Unset THEN @ ELSE bio,
                       !.updated_at = updated_at]]

\* db["user"].update_one({"_id": id}, {"$set": updates}): the fields of the
\* payload that are set, and updated_at
UpdateOne(id, bio, updated_at) ==
    [user EXCEPT ![id] = [@ EXCEPT !.bio = IF bio = Unset THEN @ ELSE bio,
                                   !.updated_at = updated_at]]

\* The matches query that looks at user_a alone
FindMatchesOfUserA(u) ==
    LET ids == {i \in DOMAIN match : match[i].user_a = u}
        n == Cardinality(ids)
    IN {s \in [1..n -> ids] :
          /\ \A i, j \in 1..n : i # j => s[i] # s[j]
          /\ \A i, j \in 1..n :
                i < j => match[s[i]].created_at >= match[s[j]].created_at}

\* db["match"].find({"$or": [{user_a: u}, {user_b: u}]}).sort("created_at", -1):
\* the matches of u by descending created_at, equal ones in any order
FindMatchesOf(u) ==
    LET ids == {i \in DOMAIN match : match[i].user_a = u \/ match[i].user_b = u}
        n == Cardinality(ids)
    IN {s \in [1..n -> ids] :
          /\ \A i, j \in 1..n : i # j => s[i] # s[j]
          /\ \A i, j \in 1..n :
                i < j => match[s[i]].created_at >= match[s[j]].created_at}

\* other_id = m["user_b"] if m["user_a"] == str(user["_id"]) else m["user_a"]
OtherId(m, u) == IF m.user_a = u THEN m.user_b ELSE m.user_a
\* The user query without its _id filter: the first user stored
get_user_by_idUnfiltered(user_id) == user[CHOOSE u \in DOMAIN user : TRUE]

\* db["user"].find_one({"_id": ObjectId(user_id)})
get_user_by_id(user_id) == IF user_id \in DOMAIN user THEN user[user_id] ELSE None

\* The reverse-like query with liked_id given the target too
FindMutualWrongField(me, target) ==
    \E d \in BagToSet(like) : d.liker_id = target /\ d.liked_id = target

\* The reverse-like query with the two ids the wrong way round
FindMutualOwnLike(me, target) ==
    \E d \in BagToSet(like) : d.liker_id = me /\ d.liked_id = target

\* db["like"].find_one({"liker_id": target, "liked_id": me}): is there one
FindMutual(me, target) ==
    \E d \in BagToSet(like) : d.liker_id = target /\ d.liked_id = me

\* The match query without its second ordering
FindExistingMatchOneOrder(me, target) ==
    \E i \in DOMAIN match : match[i].user_a = me /\ match[i].user_b = target

\* db["match"].find_one({"$or": [{user_a: me, user_b: target},
\*                               {user_a: target, user_b: me}]}): is there one
FindExistingMatch(me, target) ==
    \E i \in DOMAIN match :
        \/ match[i].user_a = me /\ match[i].user_b = target
        \/ match[i].user_a = target /\ match[i].user_b = me

\* db["match"].find_one({"_id": ObjectId(match_id)})
FindMatchById(match_id) == IF match_id \in DOMAIN match THEN match[match_id] ELSE None

\* The participant check that looks at the acting user alone
IsParticipantUnchecked(u, m) == u \in UserIds

\* str(user["_id"]) in (match["user_a"], match["user_b"])
IsParticipant(u, m) == u = m.user_a \/ u = m.user_b

\* The conversation check without its 403
AuthorizeNoForbidden(u, match_id) ==
    IF FindMatchById(match_id) = None THEN 404 ELSE 200

\* The conversation check answering 403 for a match that is not stored
AuthorizeForbiddenFirst(u, match_id) ==
    LET m == FindMatchById(match_id)
    IN IF m = None \/ ~IsParticipant(u, m) THEN 403 ELSE 200

\* The status the conversation check of /messages ends with, 200 when it passes
Authorize(u, match_id) ==
    LET m == FindMatchById(match_id)
    IN IF m = None THEN 404
       ELSE IF ~IsParticipant(u, m) THEN 403
       ELSE 200

\* The item get_messages builds of message i
Item(i) ==
    [id |-> i, sender_id |-> message[i].sender_id, text |-> message[i].text,
     created_at |-> message[i].created_at]

\* The message query without its match_id filter
FindMessagesUnfiltered(match_id) ==
    LET ids == DOMAIN message
        n == Cardinality(ids)
    IN {s \in [1..n -> ids] :
          /\ \A i, j \in 1..n : i # j => s[i] # s[j]
          /\ \A i, j \in 1..n :
                i < j => message[s[i]].created_at <= message[s[j]].created_at}

\* db["message"].find({"match_id": match_id}).sort("created_at", 1): the store
\* returns the documents of the match by ascending created_at, and documents
\* of equal created_at in any order (the sort has no second key)
FindMessagesSorted(match_id) ==
    LET ids == {i \in DOMAIN message : message[i].match_id = match_id}
        n == Cardinality(ids)
    IN {s \in [1..n -> ids] :
          /\ \A i, j \in 1..n : i # j => s[i] # s[j]
          /\ \A i, j \in 1..n :
                i < j => message[s[i]].created_at <= message[s[j]].created_at}

\* The flag of the response negated
boolInverted(match_created) == match_created # "True"

\* bool(match_created), match_created being None or True
bool(match_created) == match_created = "True"

\* ------------------------------------------------------------- requests
\* A request: the payload and acting user, where the handler stands (pc), its
\* locals (mutual, existing, doc: the match read by /messages) and its
\* response (status, match, items).  inserted is the _id of the document the
\* request stored, overlap the workers that were serving when it arrived.
\* email and bio are the payloads of register and update_me, inserted_id the
\* _id of the user stored, entity the user returned; cursor holds the matches
\* GET /matches has still to resolve, items its entries so far.
IdleRequest ==
    [op |-> "none", user |-> NoId, target |-> NoId, match_id |-> 0,
     text |-> "", pc |-> "idle", mutual |-> FALSE, existing |-> FALSE,
     doc |-> None, status |-> 0, match |-> FALSE, items |-> <<>>,
     inserted |-> 0, overlap |-> {},
     email |-> "", bio |-> Unset, inserted_id |-> NoId, entity |-> None,
     cursor |-> <<>>]

Busy(w) == req[w].pc \notin {"idle", "done"}

Request(op, u, target, match_id, text) ==
    [IdleRequest EXCEPT !.op = op, !.user = u, !.target = target,
                        !.match_id = match_id, !.text = text,
                        !.overlap = {w \in Workers : Busy(w)}]

Respond(r, status) == [r EXCEPT !.pc = "done", !.status = status]

\* The request is taken by the first worker that is not serving one
FreeWorker(w) == ~Busy(w) /\ \A v \in Workers : v < w => Busy(v)

\* Worker w takes request r; the responses already given are let go
Take(w, r) ==
    req' = [v \in Workers |->
              IF v = w THEN r
              ELSE IF Busy(v) THEN [req[v] EXCEPT !.overlap = @ \ {w}]
              ELSE IdleRequest]

\* Likes stored or about to be stored, and the same of messages
LikesDue ==
    BagCardinality(like)
    + Cardinality({w \in Workers : req[w].pc = "insert_like"})
MessagesDue ==
    Len(message) + Cardinality({w \in Workers : req[w].pc = "insert_message"})

Init ==
    /\ user = [u \in UserIds |-> User(u, 0, 0)]
    /\ like = EmptyBag
    /\ match = <<>>
    /\ message = <<>>
    /\ req = [w \in Workers |-> IdleRequest]
    /\ now = 0

\* datetime.utcnow(): a reading not before the last one (now), and equal to
\* it when two readings fall within the clock's resolution
utcnow == now..MaxClock

\* POST /like, lines 201-204: the target is looked up; 404 when it is absent
LikeBegin(u, t) ==
    /\ \E w \in Workers :
         /\ FreeWorker(w)
         /\ LET r == Request("like", u, t, 0, "")
            IN Take(w, IF get_user_by_id(t) = None
                       THEN Respond(r, 404)
                       ELSE [r EXCEPT !.pc = "insert_like"])
    /\ UNCHANGED <<user, like, match, message, now>>

\* lines 206-212: db["like"].insert_one(like_doc)
LikeInsert(w) ==
    /\ req[w].pc = "insert_like"
    /\ \E t \in utcnow :
         /\ now' = t
         /\ like' = like (+) SetToBag({Like(req[w].user, req[w].target, t)})
    /\ req' = [req EXCEPT ![w].pc = "find_mutual"]
    /\ UNCHANGED <<user, match, message>>

\* lines 214-220, 236: the reverse like is read; without one the call answers
LikeFindMutual(w) ==
    /\ req[w].pc = "find_mutual"
    /\ LET mutual == FindMutual(req[w].user, req[w].target)
       IN req' = [req EXCEPT ![w] =
                    IF mutual
                    THEN [@ EXCEPT !.mutual = TRUE, !.pc = "find_match"]
                    ELSE [Respond(@, 200) EXCEPT !.match = bool("None")]]
    /\ UNCHANGED <<user, like, match, message, now>>

\* lines 222-228, 236: the existing match is read; with one the call answers
LikeFindMatch(w) ==
    /\ req[w].pc = "find_match"
    /\ LET existing == FindExistingMatch(req[w].user, req[w].target)
       IN req' = [req EXCEPT ![w] =
                    IF existing
                    THEN [Respond(@, 200) EXCEPT !.existing = TRUE,
                                                 !.match = bool("None")]
                    ELSE [@ EXCEPT !.pc = "insert_match"]]
    /\ UNCHANGED <<user, like, match, message, now>>

\* lines 229-236: db["match"].insert_one(match_doc); match_created = True
LikeInsertMatch(w) ==
    /\ req[w].pc = "insert_match"
    /\ \E t \in utcnow :
         /\ now' = t
         /\ match' = Append(match, Match(req[w].user, req[w].target, t))
    /\ req' = [req EXCEPT ![w] =
                 [Respond(@, 200) EXCEPT !.match = bool("True"),
                                         !.inserted = Len(match) + 1]]
    /\ UNCHANGED <<user, like, message>>

\* POST /messages, lines 265-271: the match is read and the sender checked
SendBegin(u, match_id, text) ==
    /\ \E w \in Workers :
         /\ FreeWorker(w)
         /\ LET r == [Request("send", u, NoId, match_id, text)
                          EXCEPT !.doc = FindMatchById(match_id)]
                status == Authorize(u, match_id)
            IN Take(w, IF status # 200
                       THEN Respond(r, status)
                       ELSE [r EXCEPT !.pc = "insert_message"])
    /\ UNCHANGED <<user, like, match, message, now>>

\* lines 273-280: db["message"].insert_one(msg)
SendInsert(w) ==
    /\ req[w].pc = "insert_message"
    /\ \E t \in utcnow :
         /\ now' = t
         /\ message' = Append(message,
                              Message(req[w].match_id, req[w].user, req[w].text, t))
    /\ req' = [req EXCEPT ![w] =
                 [Respond(@, 200) EXCEPT !.inserted = Len(message) + 1]]
    /\ UNCHANGED <<user, like, match>>

\* GET /messages/{match_id}, lines 284-290: the match is read, the reader checked
GetBegin(u, match_id) ==
    /\ \E w \in Workers :
         /\ FreeWorker(w)
         /\ LET r == [Request("get", u, NoId, match_id, "")
                          EXCEPT !.doc = FindMatchById(match_id)]
                status == Authorize(u, match_id)
            IN Take(w, IF status # 200
                       THEN Respond(r, status)
                       ELSE [r EXCEPT !.pc = "find_messages"])
    /\ UNCHANGED <<user, like, match, message, now>>

\* lines 292-302: the messages of the match, sorted by created_at
GetFind(w) ==
    /\ req[w].pc = "find_messages"
    /\ \E s \in FindMessagesSorted(req[w].match_id) :
         req' = [req EXCEPT ![w] =
                   [Respond(@, 200) EXCEPT
                      !.items = [i \in DOMAIN s |-> Item(s[i])]]]
    /\ UNCHANGED <<user, like, match, message, now>>

\* Users stored or about to be stored by a register request
UsersDue ==
    Cardinality(DOMAIN user \ UserIds)
    + Cardinality({w \in Workers : req[w].pc = "insert_user"})

\* POST /auth/register, lines 130-134: the email is looked up; 400 when a user
\* has it
RegisterBegin(email) ==
    /\ \E w \in Workers :
         /\ FreeWorker(w)
         /\ LET r == [Request("register", NoId, NoId, 0, "") EXCEPT !.email = email]
            IN Take(w, IF get_user_by_email(email)
                       THEN Respond(r, 400)
                       ELSE [r EXCEPT !.pc = "insert_user"])
    /\ UNCHANGED <<user, like, match, message, now>>

\* lines 135-142: db["user"].insert_one(user_doc); the clock is read twice
RegisterInsert(w) ==
    /\ req[w].pc = "insert_user"
    /\ LET id == NewUserIds[Cardinality(DOMAIN user \ UserIds) + 1]
       IN /\ \E t1 \in utcnow : \E t2 \in t1..MaxClock :
               /\ now' = t2
               /\ user' = [v \in DOMAIN user \cup {id} |->
                             IF v = id THEN User(req[w].email, t1, t2)
                             ELSE user[v]]
          /\ req' = [req EXCEPT ![w].pc = "fetch_user", ![w].inserted_id = id]
    /\ UNCHANGED <<like, match, message>>

\* lines 143-144: the user stored is read back and returned
RegisterFetch(w) ==
    /\ req[w].pc = "fetch_user"
    /\ req' = [req EXCEPT ![w] =
                 [Respond(@, 200) EXCEPT !.entity = user_entity(req[w].inserted_id)]]
    /\ UNCHANGED <<user, like, match, message, now>>

\* PUT /me, line 177: get_current_user resolves the acting user
UpdateBegin(u, bio) ==
    /\ \E w \in Workers :
         /\ FreeWorker(w)
         /\ LET r == [Request("update_me", u, NoId, 0, "") EXCEPT !.bio = bio]
            IN Take(w, IF get_user_by_id(u) = None
                       THEN Respond(r, 401)
                       ELSE [r EXCEPT !.pc = "update_user"])
    /\ UNCHANGED <<user, like, match, message, now>>

\* lines 178-180: db["user"].update_one({"_id": user["_id"]}, {"$set": updates})
UpdateSet(w) ==
    /\ req[w].pc = "update_user"
    /\ \E t \in utcnow :
         /\ now' = t
         /\ user' = UpdateOne(req[w].user, req[w].bio, t)
    /\ req' = [req EXCEPT ![w].pc = "fetch_me"]
    /\ UNCHANGED <<like, match, message>>

\* lines 181-182: the user is read again and returned
UpdateFetch(w) ==
    /\ req[w].pc = "fetch_me"
    /\ req' = [req EXCEPT ![w] =
                 [Respond(@, 200) EXCEPT !.entity = user_entity(req[w].user)]]
    /\ UNCHANGED <<user, like, match, message, now>>

\* GET /matches, lines 240-246: the matches of the acting user are read
MatchesBegin(u) ==
    /\ \E w \in Workers :
         /\ FreeWorker(w)
         /\ \E s \in FindMatchesOf(u) :
              LET r == [Request("matches", u, NoId, 0, "") EXCEPT !.cursor = s]
              IN Take(w, IF s = <<>>
                         THEN Respond(r, 200)
                         ELSE [r EXCEPT !.pc = "resolve"])
    /\ UNCHANGED <<user, like, match, message, now>>

\* lines 248-256: the other user of the next match is looked up; the entry is
\* kept, with None for a user that is not found
MatchesResolve(w) ==
    /\ req[w].pc = "resolve"
    /\ LET i == Head(req[w].cursor)
           other_id == OtherId(match[i], req[w].user)
           entry == [id |-> i,
                     other |-> IF get_user_by_id(other_id) = None
                               THEN None ELSE user_entity(other_id),
                     created_at |-> match[i].created_at]
           r == [req[w] EXCEPT !.items = Append(@, entry), !.cursor = Tail(@)]
       IN req' = [req EXCEPT ![w] =
                    IF r.cursor = <<>> THEN Respond(r, 200) ELSE r]
    /\ UNCHANGED <<user, like, match, message, now>>

\* The match ids a client sends: those stored and one that is not
MatchIdInputs == 1..(Len(match) + 1)

\* A request arrives, while fewer than maxLikes likes and maxMessages messages
\* are stored or about to be; texts are the message texts sent
Begin(maxLikes, maxMessages, texts) ==
    \/ /\ LikesDue < maxLikes
       /\ \E u \in LikerIds, t \in TargetIds : LikeBegin(u, t)
    \/ /\ MessagesDue < maxMessages
       /\ \E u \in UserIds, m \in MatchIdInputs, text \in texts : SendBegin(u, m, text)
    \/ \E u \in UserIds, m \in MatchIdInputs : GetBegin(u, m)

\* A request being served makes its next round trip to the store
Step ==
    \/ \E w \in Workers : LikeInsert(w)
    \/ \E w \in Workers : LikeFindMutual(w)
    \/ \E w \in Workers : LikeFindMatch(w)
    \/ \E w \in Workers : LikeInsertMatch(w)
    \/ \E w \in Workers : SendInsert(w)
    \/ \E w \in Workers : GetFind(w)

\* Requests overlap: any interleaving of the steps of up to MaxInFlight requests
Next == Begin(MaxLikes, MaxMessages, Texts) \/ Step

Spec == Init /\ [][Next]_vars

\* One request at a time: a request arrives only when none is being served
NoneBusy == \A w \in Workers : ~Busy(w)

NextSeq == (NoneBusy /\ Begin(MaxLikesSeq, MaxMessagesSeq, TextsSeq)) \/ Step

SpecSeq == Init /\ [][NextSeq]_vars

\* A register or update_me request arrives, while fewer than maxRegisters
\* users are registered or about to be
BeginAccount(maxRegisters) ==
    \/ /\ UsersDue < maxRegisters
       /\ \E email \in Emails : RegisterBegin(email)
    \/ \E u \in UpdaterIds, bio \in Bios : UpdateBegin(u, bio)

StepAccount ==
    \/ \E w \in Workers : RegisterInsert(w)
    \/ \E w \in Workers : RegisterFetch(w)
    \/ \E w \in Workers : UpdateSet(w)
    \/ \E w \in Workers : UpdateFetch(w)

\* The account requests overlapping
NextAccount == BeginAccount(MaxRegisters) \/ StepAccount

SpecAccount == Init /\ [][NextAccount]_vars

BeginMatches == \E u \in DOMAIN user : MatchesBegin(u)

StepMatches == \E w \in Workers : MatchesResolve(w)

\* Requests of every kind, one at a time
NextAll ==
    \/ NoneBusy /\ Begin(MaxLikesAll, MaxMessagesAll, TextsSeq)
    \/ NoneBusy /\ BeginAccount(MaxRegistersAll)
    \/ NoneBusy /\ BeginMatches
    \/ Step
    \/ StepAccount
    \/ StepMatches

SpecAll == Init /\ [][NextAll]_vars

\* GET /matches against a store as the handler may find it: up to
\* MaxMatchesDir matches among the users, a like each way behind each, and
\* the document of user b there or gone (what line 253 provides for)
InitDir ==
    /\ \E gone \in SUBSET {"b"} :
         user = [u \in UserIds \ gone |-> User(u, 0, 0)]
    /\ \E n \in 0..MaxMatchesDir :
         \E ms \in [1..n -> {Match(a, b, t) : a \in UserIds, b \in UserIds,
                                               t \in 0..MaxClock}] :
            /\ \A i, j \in 1..n : i < j => ms[i].created_at <= ms[j].created_at
            /\ match = ms
            /\ like = SetToBag({Like(ms[i].user_a, ms[i].user_b, 0) : i \in 1..n}
                               \cup {Like(ms[i].user_b, ms[i].user_a, 0) : i \in 1..n})
    /\ message = <<>>
    /\ req = [w \in Workers |-> IdleRequest]
    /\ now = MaxClock

NextDir == BeginMatches \/ StepMatches

SpecDir == InitDir /\ [][NextDir]_vars


\* ================================================================ claims
\* The two users of a match, whatever their order
Pair(m) == {m.user_a, m.user_b}

\* The _ids of the matches stored for the unordered pair {A, B}
MatchesOf(A, B) == {i \in DOMAIN match : Pair(match[i]) = {A, B}}

\* How many likes A -> B the ledger holds
LikeCount(A, B) ==
    LET ds == {d \in BagToSet(like) : d.liker_id = A /\ d.liked_id = B}
        RECURSIVE Sum(_)
        Sum(S) == IF S = {} THEN 0
                  ELSE LET d == CHOOSE x \in S : TRUE
                       IN CopiesIn(d, like) + Sum(S \ {d})
    IN Sum(ds)

HasLike(A, B) == LikeCount(A, B) > 0

\* Worker w holds a finished request of kind op
Done(w, op) == req[w].op = op /\ req[w].pc = "done"

\* Workers v and w hold the finished calls like(A,B) and like(B,A), A # B
LikedBothWays(v, w) ==
    /\ v # w
    /\ Done(v, "like") /\ req[v].status = 200
    /\ Done(w, "like") /\ req[w].status = 200
    /\ req[v].user # req[v].target
    /\ req[w].user = req[v].target
    /\ req[w].target = req[v].user

\* ... the two calls overlapped, and theirs are the only likes and matches
\* between the two users
ConcurrentFirstLikes(v, w) ==
    /\ LikedBothWays(v, w)
    /\ v \in req[w].overlap \/ w \in req[v].overlap
    /\ LikeCount(req[v].user, req[v].target) = 1
    /\ LikeCount(req[w].user, req[w].target) = 1
    /\ MatchesOf(req[v].user, req[v].target) \subseteq {req[v].inserted, req[w].inserted}

\* No like(A,B) call is between its insert of the Like and its response
NoneLiking(A, B) ==
    \A w \in Workers :
        (req[w].op = "like" /\ req[w].user = A /\ req[w].target = B)
            => req[w].pc \in {"insert_like", "done"}

\* C1: whatever the interleaving of like requests, the match collection holds
\* at most one Match for an unordered pair of users, both orderings counted.
C1_AtMostOneMatchPerPair ==
    \A i, j \in DOMAIN match : i # j => Pair(match[i]) # Pair(match[j])

C3_NeverZero ==
    /\ \A v, w \in Workers :
          LikedBothWays(v, w) => MatchesOf(req[v].user, req[v].target) # {}
    /\ \A A, B \in UserIds :
          (/\ A # B
           /\ HasLike(A, B) /\ HasLike(B, A)
           /\ NoneLiking(A, B) /\ NoneLiking(B, A))
              => MatchesOf(A, B) # {}

C3_Witness ==
    \E v, w \in Workers :
        LikedBothWays(v, w) /\ MatchesOf(req[v].user, req[v].target) # {}

\* Worker w holds a /messages request of a user who is neither user_a nor
\* user_b of the stored match it names
Outsider(w) ==
    /\ req[w].op \in {"send", "get"}
    /\ req[w].doc # None
    /\ req[w].user \notin Pair(req[w].doc)

\* C4: send_message and get_messages by a user outside the match fail with
\* 403; the failed send stores no Message, the failed read returns none.
C4_ConversationIsolation ==
    /\ \A w \in Workers :
          Outsider(w) => /\ req[w].pc = "done"
                         /\ req[w].status = 403
                         /\ req[w].inserted = 0
                         /\ req[w].items = <<>>
    /\ \A i \in DOMAIN message :
          message[i].match_id \in DOMAIN match
              => message[i].sender_id \in Pair(match[message[i].match_id])

C4_Witness ==
    \E w \in Workers :
        /\ Outsider(w) /\ req[w].op = "send" /\ req[w].status = 403
        /\ req[w].doc.user_a # req[w].doc.user_b

\* C5: like(A,A) fails with InvalidInput, records no Like and creates no
\* Match whose user_a is its user_b.
C5_NoSelfLike ==
    /\ \A w \in Workers :
          (Done(w, "like") /\ req[w].user = req[w].target)
              => req[w].status \in {400, 422}
    /\ \A A \in UserIds : ~HasLike(A, A)
    /\ \A i \in DOMAIN match : match[i].user_a # match[i].user_b

\* C6: like(A,B) with no Like B -> A stored reports match false and creates
\* no Match; every Match stored is backed by a Like each way.  (A call with
\* A = B stores the Like A -> A itself before it reads: that is C5's case.)
C6_NoPrematureMatch ==
    /\ \A w \in Workers :
          (/\ Done(w, "like") /\ req[w].status = 200
           /\ ~HasLike(req[w].target, req[w].user))
              => /\ ~req[w].match
                 /\ req[w].inserted = 0
                 /\ MatchesOf(req[w].user, req[w].target) = {}
    /\ \A i \in DOMAIN match :
          /\ HasLike(match[i].user_a, match[i].user_b)
          /\ HasLike(match[i].user_b, match[i].user_a)

C6_Witness ==
    \E w \in Workers :
        /\ Done(w, "like") /\ req[w].status = 200
        /\ ~HasLike(req[w].target, req[w].user)
        /\ ~req[w].match
        /\ req[w].user # req[w].target

\* C7: with the calls made one after another, like(A,B) repeated after a
\* like(B,A) leaves exactly one Match for {A,B}: a later call inserts none.
C7_IdempotentSequential ==
    /\ \A i, j \in DOMAIN match : i # j => Pair(match[i]) # Pair(match[j])
    /\ \A A, B \in UserIds :
          (/\ A # B /\ NoneBusy
           /\ HasLike(A, B) /\ HasLike(B, A))
              => Cardinality(MatchesOf(A, B)) = 1
    /\ \A w \in Workers :
          (Done(w, "like") /\ req[w].inserted # 0)
              => MatchesOf(req[w].user, req[w].target) = {req[w].inserted}

C7_Witness ==
    \E A, B \in UserIds :
        /\ A # B /\ NoneBusy
        /\ HasLike(B, A) /\ LikeCount(A, B) >= 2
        /\ Cardinality(MatchesOf(A, B)) = 1
        /\ \E w \in Workers :
              /\ Done(w, "like") /\ req[w].user = A /\ req[w].target = B
              /\ req[w].existing /\ req[w].inserted = 0

\* C8: like(A,B) that reads a Like B -> A and an existing Match for {A,B}
\* reports match true (with that match) and inserts no Match.
C8_ExistingMatchReported ==
    \A w \in Workers :
        (/\ Done(w, "like") /\ req[w].user # req[w].target
         /\ req[w].mutual /\ req[w].existing)
            => req[w].match /\ req[w].inserted = 0

\* C9: every Message stored names a stored Match and a sender that is that
\* Match's user_a or user_b.
C9_MessagesReferenceMatch ==
    \A i \in DOMAIN message :
        /\ message[i].match_id \in DOMAIN match
        /\ message[i].sender_id \in Pair(match[message[i].match_id])

C9_Witness ==
    \E w \in Workers :
        /\ Done(w, "send") /\ req[w].status = 200
        /\ req[w].inserted \in DOMAIN message
        /\ message[req[w].inserted].sender_id = req[w].user
        /\ req[w].doc.user_a # req[w].doc.user_b

\* C10: messages appended to a match by successive send_message calls are
\* returned by get_messages in that order, created_at not decreasing, also
\* when two of them carry the same created_at.
C10_MessageOrdering ==
    \A w \in Workers :
        (/\ Done(w, "get") /\ req[w].status = 200
         /\ req[w].doc.user_a # req[w].doc.user_b)
            => \A i, j \in DOMAIN req[w].items :
                  i < j => /\ req[w].items[i].id < req[w].items[j].id
                           /\ req[w].items[i].created_at
                                 <= req[w].items[j].created_at

\* C11: get_messages by a participant returns exactly the Messages stored
\* with that match_id: each of them once, and none of another match.
C11_ExactlyTheMatchMessages ==
    \A w \in Workers :
        (Done(w, "get") /\ req[w].status = 200)
            => LET items == req[w].items
                   ids == {i \in DOMAIN message :
                              message[i].match_id = req[w].match_id}
               IN /\ {items[k].id : k \in DOMAIN items} = ids
                  /\ Len(items) = Cardinality(ids)
                  /\ \A k \in DOMAIN items :
                        /\ items[k].sender_id = message[items[k].id].sender_id
                        /\ items[k].text = message[items[k].id].text

C11_Witness ==
    \E w \in Workers :
        /\ Done(w, "get") /\ req[w].status = 200
        /\ req[w].items # <<>>
        /\ \E i \in DOMAIN message : message[i].match_id # req[w].match_id

\* C12: like(A,X) with X the id of no user fails with 404 before the Like is
\* inserted: no Like and no Match ever names such a target.
C12_UnknownTargetNotFound ==
    /\ \A w \in Workers :
          (req[w].op = "like" /\ req[w].target \notin DOMAIN user)
              => /\ req[w].pc = "done"
                 /\ req[w].status = 404
                 /\ req[w].inserted = 0
    /\ \A d \in BagToSet(like) : d.liked_id \in DOMAIN user
    /\ \A i \in DOMAIN match : match[i].user_b \in DOMAIN user

C12_Witness ==
    \E w \in Workers :
        /\ Done(w, "like") /\ req[w].target \notin DOMAIN user
        /\ req[w].status = 404
        /\ like # EmptyBag

\* C13: send_message and get_messages naming a match that is not stored fail
\* with 404 for every acting user, also one who is no participant of any
\* match; the failed send stores no Message.
C13_UnknownMatchNotFound ==
    /\ \A w \in Workers :
          (req[w].op \in {"send", "get"} /\ req[w].doc = None)
              => /\ req[w].pc = "done"
                 /\ req[w].status = 404
                 /\ req[w].inserted = 0
                 /\ req[w].items = <<>>
    /\ \A i \in DOMAIN message : message[i].match_id \in DOMAIN match

C13_Witness ==
    \E w \in Workers :
        /\ Done(w, "send") /\ req[w].doc = None /\ req[w].status = 404
        /\ req[w].user = "c"
        /\ match # <<>>

\* C14: send_message by a participant with an empty text fails with
\* InvalidInput and appends nothing; no stored Message has an empty text.
C14_NoEmptyText ==
    /\ \A w \in Workers :
          (/\ Done(w, "send") /\ req[w].text = ""
           /\ req[w].doc # None /\ req[w].user \in Pair(req[w].doc)
           /\ req[w].doc.user_a # req[w].doc.user_b)
              => req[w].status \in {400, 422} /\ req[w].inserted = 0
    /\ \A i \in DOMAIN message :
          (/\ message[i].match_id \in DOMAIN match
           /\ match[message[i].match_id].user_a # match[message[i].match_id].user_b)
              => message[i].text # ""

\* Worker w holds the first like between its two users, and the first like
\* the other way after exactly one like this way
FirstOfExample(w) ==
    /\ Done(w, "like") /\ req[w].status = 200
    /\ req[w].user # req[w].target
    /\ LikeCount(req[w].user, req[w].target) = 1
    /\ LikeCount(req[w].target, req[w].user) = 0

SecondOfExample(w) ==
    /\ Done(w, "like") /\ req[w].status = 200
    /\ req[w].user # req[w].target
    /\ LikeCount(req[w].user, req[w].target) = 1
    /\ LikeCount(req[w].target, req[w].user) = 1

\* C17 as claimed: A likes B reports false; then B likes A reports true and
\* the Match created has user_a = A and user_b = B.
C17_ExampleScenario ==
    \A w \in Workers :
        /\ FirstOfExample(w) => ~req[w].match
        /\ SecondOfExample(w) =>
              /\ req[w].match
              /\ req[w].inserted \in DOMAIN match
              /\ match[req[w].inserted].user_a = req[w].target
              /\ match[req[w].inserted].user_b = req[w].user

\* C17 as amended: A likes B reports false; then B likes A reports true and
\* the Match created has user_a = B, the second liker, and user_b = A.
C17_ExampleScenarioLikerFirst ==
    \A w \in Workers :
        /\ FirstOfExample(w) => ~req[w].match /\ req[w].inserted = 0
        /\ SecondOfExample(w) =>
              /\ req[w].match
              /\ req[w].inserted \in DOMAIN match
              /\ match[req[w].inserted].user_a = req[w].user
              /\ match[req[w].inserted].user_b = req[w].target

C17_Witness ==
    \E w \in Workers :
        /\ SecondOfExample(w) /\ req[w].match
        /\ req[w].user = "b" /\ req[w].target = "a"
        /\ match = <<match[req[w].inserted]>>

\* C19: the like response's match is true exactly when this call inserted a
\* Match; without a reverse like, or with an existing Match, it is false.
C19_MatchFlagIffInserted ==
    \A w \in Workers :
        (Done(w, "like") /\ req[w].status = 200)
            => /\ req[w].match <=>
                    /\ req[w].inserted \in DOMAIN match
                    /\ match[req[w].inserted].user_a = req[w].user
                    /\ match[req[w].inserted].user_b = req[w].target
               /\ ~req[w].mutual => ~req[w].match
               /\ req[w].existing => ~req[w].match

C19_Witness ==
    \E v, w \in Workers :
        /\ LikedBothWays(v, w)
        /\ req[v].match /\ req[v].inserted \in DOMAIN match
        /\ req[w].existing /\ ~req[w].match

\* The participant of match m other than u (u itself when m pairs u with u)
CounterpartOf(m, u) ==
    IF Pair(m) = {u} THEN u ELSE CHOOSE v \in Pair(m) : v # u

\* C15: matches(u) returns exactly one entry per stored Match in which u is
\* user_a or user_b and none for any other Match; each entry's counterpart is
\* the participant other than u, and is null, the entry still being returned,
\* when that user does not resolve.
C15_MatchesDirectory ==
    \A w \in Workers :
        (Done(w, "matches") /\ req[w].status = 200) =>
            LET items == req[w].items
                u == req[w].user
                mine == {i \in DOMAIN match : u \in Pair(match[i])}
            IN /\ Len(items) = Cardinality(mine)
               /\ {items[k].id : k \in DOMAIN items} = mine
               /\ \A k \in DOMAIN items :
                     LET v == CounterpartOf(match[items[k].id], u)
                     IN items[k].other = IF v \in DOMAIN user
                                         THEN user_entity(v) ELSE None

C15_Witness ==
    \E w \in Workers :
        /\ Done(w, "matches") /\ req[w].status = 200
        /\ req[w].user = "a"
        /\ Len(req[w].items) = 2
        /\ Len(match) = 2
        /\ \E k \in DOMAIN req[w].items : req[w].items[k].other = None
        /\ \E k \in DOMAIN req[w].items : req[w].items[k].other = user_entity("c")

\* C16: no step of register, update_me, like, matches, send_message or
\* get_messages deletes or modifies a stored Match, Like or Message, the
\* three collections only grow at the end; no user record is removed, and a
\* user record changes only in the update of an update_me by that user.
C16_AppendOnly ==
    [][/\ \A d \in BagToSet(like) : CopiesIn(d, like') >= CopiesIn(d, like)
       /\ Len(match') >= Len(match)
       /\ \A i \in DOMAIN match : match'[i] = match[i]
       /\ Len(message') >= Len(message)
       /\ \A i \in DOMAIN message : message'[i] = message[i]
       /\ DOMAIN user \subseteq DOMAIN user'
       /\ \A id \in DOMAIN user :
             user'[id] # user[id] =>
                \E w \in Workers :
                    /\ req[w].op = "update_me" /\ req[w].user = id
                    /\ req[w].pc = "update_user" /\ req'[w].pc = "fetch_me"]_vars

C16_Witness ==
    \E w \in Workers :
        /\ Done(w, "update_me") /\ req[w].status = 200
        /\ user["a"].bio = "hey"
        /\ user["b"] = User("b", 0, 0)
        /\ match # <<>> /\ message # <<>>
        /\ DOMAIN user # UserIds

\* C18 as claimed: no two user records share an email, also when register
\* requests for the same email overlap; a register call answered 400 has
\* inserted no user.
C18_EmailUnique ==
    /\ \A i, j \in DOMAIN user : i # j => user[i].email # user[j].email
    /\ \A w \in Workers :
          (Done(w, "register") /\ req[w].status = 400)
              => req[w].inserted_id = NoId
====
